---- MODULE Spec2Model ----
(***************************************************************************)
(* The Crooked Fence: the seven callable cloud functions of                *)
(* functions/src/index.js, with the document store (Firestore), the        *)
(* identity provider (Firebase Auth) and the email provider (Resend) as    *)
(* shared state.  A handler runs from one await to the next as one atomic  *)
(* step; between two awaits other invocations may run.  Every external     *)
(* call may fail, and then the handler's promise rejects.                  *)
(***************************************************************************)
EXTENDS Integers, Sequences, FiniteSets, TLC

VARIABLES users, auth, stockItems, stockCategories, orders, sent, resendKey, now, inv,
          served

vars == <<users, auth, stockItems, stockCategories, orders, sent, resendKey, now, inv, served>>
stores == <<users, auth, stockItems, stockCategories, orders, sent>>

(* ------------------------------ bounds -------------------------------- *)
\* server time runs over 1..MaxClock
MaxClock == 2

\* the requests a run of Spec serves
MaxRequests == 2

\* a JavaScript null or undefined
Null == "<null>"

(* ------------------------------ values -------------------------------- *)
BOOTSTRAP_ADMINS ==
    {"bradsgbaker14@gmail.com", "admin@thecrookedfence.co.za", "stolschristopher60@gmail.com"}

\* String.prototype.toLowerCase on the strings of the model
toLowerCase(s) ==
    CASE s = "Admin@TheCrookedFence.co.za" -> "admin@thecrookedfence.co.za"
      [] s = "Bob@Example.com" -> "bob@example.com"
      [] s = "New@Example.com" -> "new@example.com"
      [] OTHER -> s

\* String.prototype.trim on the strings of the model
trim(s) ==
    CASE s = "  " -> ""
      [] s = " New@Example.com " -> "New@Example.com"
      [] s = " u1 " -> "u1"
      [] s = " c1 " -> "c1"
      [] s = " o1 " -> "o1"
      [] s = " eggOrders " -> "eggOrders"
      [] OTHER -> s

\* x || d : d replaces every falsy x (null, undefined, the empty string)
orElse(x, d) == IF x = Null \/ x = "" THEN d ELSE x

\* obj.field of a document, undefined when the field is missing
field(d, f) == IF f \in DOMAIN d THEN d[f] ELSE Null

\* set(data, {merge: true}) on a document that may not exist: the fields of
\* data replace those of the document, every other field is kept
merge(data, old) == [f \in DOMAIN data \cup DOMAIN old |->
                        IF f \in DOMAIN data THEN data[f] ELSE old[f]]

\* a collection without one document
without(coll, id) == [k \in DOMAIN coll \ {id} |-> coll[k]]

\* a collection with one document written
with(coll, id, d) == [k \in DOMAIN coll \cup {id} |-> IF k = id THEN d ELSE coll[k]]

NoDoc == [exists |-> FALSE, data |-> [none |-> TRUE]]
snapshotOf(coll, id) ==
    IF id \in DOMAIN coll THEN [exists |-> TRUE, data |-> coll[id]] ELSE NoDoc

(* ------------------------------ callers ------------------------------- *)
Anon == [auth |-> FALSE, uid |-> Null, email |-> Null, role |-> Null]
Bob  == [auth |-> TRUE, uid |-> "u1", email |-> "Bob@Example.com", role |-> Null]
BobW == [auth |-> TRUE, uid |-> "u1", email |-> "Bob@Example.com", role |-> "worker"]
Root == [auth |-> TRUE, uid |-> "r1", email |-> "Admin@TheCrookedFence.co.za", role |-> Null]
Sup  == [auth |-> TRUE, uid |-> "r1", email |-> "Admin@TheCrookedFence.co.za",
         role |-> "super_admin"]
Callers == {Anon, Bob, BobW, Root, Sup}

\* the callers that sync their profile
ProfileCallers == {Anon, Bob, BobW, Root}

(* --------------------------- role and guards -------------------------- *)
\* getRoleFromContext with "worker" for a caller that has neither a claim nor a
\* bootstrap email
getRoleDefaultWorker(context) ==
    LET email == IF context.auth /\ context.email # Null
                 THEN toLowerCase(context.email) ELSE ""
        claimRole == IF context.auth THEN context.role ELSE Null
    IN  IF claimRole # Null /\ claimRole # "" THEN claimRole
        ELSE IF email \in BOOTSTRAP_ADMINS THEN "admin"
        ELSE "worker"

getRoleFromContext(context) ==
    LET email == IF context.auth /\ context.email # Null
                 THEN toLowerCase(context.email) ELSE ""
        claimRole == IF context.auth THEN context.role ELSE Null
    IN  IF claimRole # Null /\ claimRole # "" THEN claimRole
        ELSE IF email \in BOOTSTRAP_ADMINS THEN "admin"
        ELSE Null

\* TRUE when the guard lets the caller through
requireAdmin(context) == getRoleFromContext(context) \in {"admin", "super_admin"}

requireStaff(context) == getRoleFromContext(context) \in {"admin", "super_admin", "worker"}

\* the client of the email provider, named by its API key, Null when no key is
\* configured: the environment variable first, then the functions config
getResendClient == orElse(resendKey.env, resendKey.config)

(* ----------------------------- invocations ---------------------------- *)
Slots == {1, 2}

None == [none |-> TRUE]

\* an invocation slot with no request in it
Idle == [op |-> "idle", pc |-> "idle", context |-> Anon, data |-> None, loc |-> None,
         res |-> [code |-> "none", value |-> None], calls |-> <<>>]

\* a request as it enters its handler
Request(op, context, data) ==
    [op |-> op, pc |-> "start", context |-> context, data |-> data, loc |-> None,
     res |-> [code |-> "none", value |-> None], calls |-> <<>>]

\* throw new functions.https.HttpsError(code, ...)
HttpsError(r, code) == [r EXCEPT !.pc = "done", !.res = [code |-> code, value |-> None]]

\* an awaited external call rejects: the rejection leaves the handler as it is
\* and the caller sees an internal error
Rejected(r, call) ==
    [r EXCEPT !.pc = "done", !.res = [code |-> "internal", value |-> [failed |-> call]]]

\* return value
Return(r, value) == [r EXCEPT !.pc = "done", !.res = [code |-> "ok", value |-> value]]

\* the next await of the handler, with its locals
Await(r, pc, loc) == [r EXCEPT !.pc = pc, !.loc = loc]

\* an external call of the invocation has taken effect
Called(r, call) == [r EXCEPT !.calls = Append(@, call)]

\* the response has gone back to the client and the slot is free again
Respond(i) ==
    /\ inv[i].pc = "done"
    /\ inv' = [inv EXCEPT ![i] = Idle]
    /\ UNCHANGED <<stores, resendKey, now, served>>

\* server time passes
Tick ==
    /\ now < MaxClock
    /\ now' = now + 1
    /\ UNCHANGED <<stores, resendKey, inv, served>>

(* ----------------------- ensureCurrentUserProfile --------------------- *)
\* uid, email and role of the caller
ensureLocals(context) ==
    [uid |-> context.uid, email |-> orElse(context.email, ""),
     role |-> getRoleFromContext(context)]

ensureStart(i, context) ==
    /\ inv[i].pc = "idle"
    /\ LET r == Request("ensureCurrentUserProfile", context, None)
       IN  inv' = [inv EXCEPT ![i] =
                IF ~context.auth THEN HttpsError(r, "unauthenticated")
                ELSE Await(r, "get", ensureLocals(context))]
    /\ UNCHANGED <<stores, resendKey, now>>

ensureGet(i) ==
    /\ inv[i].op = "ensureCurrentUserProfile" /\ inv[i].pc = "get"
    /\ LET r == inv[i] IN
       \/ inv' = [inv EXCEPT ![i] = Await(Called(r, "users.get"), "set",
                     [uid |-> r.loc.uid, email |-> r.loc.email, role |-> r.loc.role,
                      snapshot |-> snapshotOf(users, r.loc.uid)])]
       \/ inv' = [inv EXCEPT ![i] = Rejected(r, "users.get")]
    /\ UNCHANGED <<stores, resendKey, now, served>>

\* ensureWrite with the existing profile overwritten instead of merged
ensureWriteNoMerge(l, old, t) ==
    IF ~l.snapshot.exists
    THEN [email |-> l.email, role |-> l.role, disabled |-> FALSE,
          createdAt |-> t, updatedAt |-> t]
    ELSE [email |-> l.email,
          role |-> IF l.role # Null THEN l.role ELSE field(l.snapshot.data, "role"),
          updatedAt |-> t]

\* ensureWrite with the resolved role written as it is, stored role or not
ensureWriteNoFallback(l, old, t) ==
    IF ~l.snapshot.exists
    THEN [email |-> l.email, role |-> l.role, disabled |-> FALSE,
          createdAt |-> t, updatedAt |-> t]
    ELSE merge([email |-> l.email, role |-> l.role, updatedAt |-> t], old)

\* the document ensureCurrentUserProfile writes, given the snapshot it read and
\* the document as it is now (old, the empty record when there is none)
ensureWrite(l, old, t) ==
    IF ~l.snapshot.exists
    THEN [email |-> l.email, role |-> l.role, disabled |-> FALSE,
          createdAt |-> t, updatedAt |-> t]
    ELSE merge([email |-> l.email,
                role |-> IF l.role # Null THEN l.role
                         ELSE field(l.snapshot.data, "role"),
                updatedAt |-> t], old)

ensureSet(i) ==
    /\ inv[i].op = "ensureCurrentUserProfile" /\ inv[i].pc = "set"
    /\ LET r == inv[i]
           l == r.loc
           old == IF l.uid \in DOMAIN users THEN users[l.uid] ELSE <<>>
       IN
       \/ /\ users' = with(users, l.uid, ensureWrite(l, old, now))
          /\ inv' = [inv EXCEPT ![i] = Return(Called(r, "users.set"),
                        [uid |-> l.uid, email |-> l.email, role |-> l.role])]
       \/ /\ inv' = [inv EXCEPT ![i] = Rejected(r, "users.set")]
          /\ UNCHANGED users
    /\ UNCHANGED <<auth, stockItems, stockCategories, orders, sent, resendKey, now, served>>

(* ----------------------------- createAuthUser -------------------------- *)
\* the uids the identity provider may give to a new user
NewUids == {"u2"}

\* the password createAuthUser generates: "Temp", base-36 characters, "!"
GeneratedPassword == "Temp<random>!"

createStart(i, context, data) ==
    /\ inv[i].pc = "idle"
    /\ LET r == Request("createAuthUser", context, data)
           email == toLowerCase(trim(orElse(data.email, "")))
           role == trim(orElse(data.role, "worker"))
           password == trim(orElse(data.password, ""))
       IN  inv' = [inv EXCEPT ![i] =
                IF ~requireAdmin(context) THEN HttpsError(r, "permission-denied")
                ELSE IF email = "" THEN HttpsError(r, "invalid-argument")
                ELSE Await(r, "createUser",
                           [email |-> email, role |-> role, password |-> password,
                            generatedPassword |-> orElse(password, GeneratedPassword)])]
    /\ UNCHANGED <<stores, resendKey, now>>

\* admin.auth().createUser: a new uid, unless the email is taken
createUser(i) ==
    /\ inv[i].op = "createAuthUser" /\ inv[i].pc = "createUser"
    /\ LET r == inv[i]
           l == r.loc
       IN
       \/ \E uid \in NewUids \ DOMAIN auth :
            /\ \A u \in DOMAIN auth : auth[u].email # l.email
            /\ auth' = with(auth, uid, [email |-> l.email, disabled |-> FALSE,
                                         role |-> Null])
            /\ inv' = [inv EXCEPT ![i] = Await(Called(r, "auth.createUser"), "setClaims",
                          [email |-> l.email, role |-> l.role, password |-> l.password,
                           generatedPassword |-> l.generatedPassword, uid |-> uid])]
       \/ /\ inv' = [inv EXCEPT ![i] = Rejected(r, "auth.createUser")]
          /\ UNCHANGED auth
    /\ UNCHANGED <<users, stockItems, stockCategories, orders, sent, resendKey, now, served>>

\* admin.auth().setCustomUserClaims(uid, {role})
createSetClaims(i) ==
    /\ inv[i].op = "createAuthUser" /\ inv[i].pc = "setClaims"
    /\ LET r == inv[i]
           l == r.loc
       IN
       \/ /\ l.uid \in DOMAIN auth
          /\ auth' = with(auth, l.uid, [auth[l.uid] EXCEPT !.role = l.role])
          /\ inv' = [inv EXCEPT ![i] = Await(Called(r, "auth.setCustomUserClaims"),
                                             "setDoc", l)]
       \/ /\ inv' = [inv EXCEPT ![i] = Rejected(r, "auth.setCustomUserClaims")]
          /\ UNCHANGED auth
    /\ UNCHANGED <<users, stockItems, stockCategories, orders, sent, resendKey, now, served>>

createSetDoc(i) ==
    /\ inv[i].op = "createAuthUser" /\ inv[i].pc = "setDoc"
    /\ LET r == inv[i]
           l == r.loc
       IN
       \/ /\ users' = with(users, l.uid, [email |-> l.email, role |-> l.role,
                                           disabled |-> FALSE,
                                           createdAt |-> now, updatedAt |-> now])
          /\ inv' = [inv EXCEPT ![i] = Return(Called(r, "users.set"),
                        [uid |-> l.uid,
                         temporaryPassword |-> IF l.password # "" THEN Null
                                               ELSE l.generatedPassword])]
       \/ /\ inv' = [inv EXCEPT ![i] = Rejected(r, "users.set")]
          /\ UNCHANGED users
    /\ UNCHANGED <<auth, stockItems, stockCategories, orders, sent, resendKey, now, served>>

(* --------------------------- updateAuthUserStatus --------------------- *)
updateStart(i, context, data) ==
    /\ inv[i].pc = "idle"
    /\ LET r == Request("updateAuthUserStatus", context, data)
           uid == trim(orElse(data.uid, ""))
       IN  inv' = [inv EXCEPT ![i] =
                IF ~requireAdmin(context) THEN HttpsError(r, "permission-denied")
                ELSE IF uid = "" THEN HttpsError(r, "invalid-argument")
                ELSE Await(r, "updateUser", [uid |-> uid, disabled |-> data.disabled])]
    /\ UNCHANGED <<stores, resendKey, now>>

\* updateUser with the rejection of the identity provider swallowed
updateUserSwallow(i) ==
    /\ inv[i].op = "updateAuthUserStatus" /\ inv[i].pc = "updateUser"
    /\ LET r == inv[i]
           l == r.loc
       IN
       \/ /\ l.uid \in DOMAIN auth
          /\ auth' = with(auth, l.uid, [auth[l.uid] EXCEPT !.disabled = l.disabled])
          /\ inv' = [inv EXCEPT ![i] = Await(Called(r, "auth.updateUser"), "setDoc", l)]
       \/ /\ inv' = [inv EXCEPT ![i] = Await(r, "setDoc", l)]
          /\ UNCHANGED auth
    /\ UNCHANGED <<users, stockItems, stockCategories, orders, sent, resendKey, now, served>>

\* admin.auth().updateUser(uid, {disabled}): rejects for an unknown uid
updateUser(i) ==
    /\ inv[i].op = "updateAuthUserStatus" /\ inv[i].pc = "updateUser"
    /\ LET r == inv[i]
           l == r.loc
       IN
       \/ /\ l.uid \in DOMAIN auth
          /\ auth' = with(auth, l.uid, [auth[l.uid] EXCEPT !.disabled = l.disabled])
          /\ inv' = [inv EXCEPT ![i] = Await(Called(r, "auth.updateUser"), "setDoc", l)]
       \/ /\ inv' = [inv EXCEPT ![i] = Rejected(r, "auth.updateUser")]
          /\ UNCHANGED auth
    /\ UNCHANGED <<users, stockItems, stockCategories, orders, sent, resendKey, now, served>>

updateSetDoc(i) ==
    /\ inv[i].op = "updateAuthUserStatus" /\ inv[i].pc = "setDoc"
    /\ LET r == inv[i]
           l == r.loc
           old == IF l.uid \in DOMAIN users THEN users[l.uid] ELSE <<>>
       IN
       \/ /\ users' = with(users, l.uid,
                            merge([disabled |-> l.disabled, updatedAt |-> now], old))
          /\ inv' = [inv EXCEPT ![i] = Return(Called(r, "users.set"),
                        [uid |-> l.uid, disabled |-> l.disabled])]
       \/ /\ inv' = [inv EXCEPT ![i] = Rejected(r, "users.set")]
          /\ UNCHANGED users
    /\ UNCHANGED <<auth, stockItems, stockCategories, orders, sent, resendKey, now, served>>

(* ------------------------------ deleteAuthUser ------------------------ *)
deleteStart(i, context, data) ==
    /\ inv[i].pc = "idle"
    /\ LET r == Request("deleteAuthUser", context, data)
           uid == trim(orElse(data.uid, ""))
       IN  inv' = [inv EXCEPT ![i] =
                IF ~requireAdmin(context) THEN HttpsError(r, "permission-denied")
                ELSE IF uid = "" THEN HttpsError(r, "invalid-argument")
                ELSE Await(r, "deleteUser", [uid |-> uid])]
    /\ UNCHANGED <<stores, resendKey, now>>

\* admin.auth().deleteUser(uid): rejects for an unknown uid
deleteUser(i) ==
    /\ inv[i].op = "deleteAuthUser" /\ inv[i].pc = "deleteUser"
    /\ LET r == inv[i]
           l == r.loc
       IN
       \/ /\ l.uid \in DOMAIN auth
          /\ auth' = without(auth, l.uid)
          /\ inv' = [inv EXCEPT ![i] = Await(Called(r, "auth.deleteUser"), "deleteDoc", l)]
       \/ /\ inv' = [inv EXCEPT ![i] = Rejected(r, "auth.deleteUser")]
          /\ UNCHANGED auth
    /\ UNCHANGED <<users, stockItems, stockCategories, orders, sent, resendKey, now, served>>

deleteDoc(i) ==
    /\ inv[i].op = "deleteAuthUser" /\ inv[i].pc = "deleteDoc"
    /\ LET r == inv[i]
           l == r.loc
       IN
       \/ /\ users' = without(users, l.uid)
          /\ inv' = [inv EXCEPT ![i] = Return(Called(r, "users.delete"), [uid |-> l.uid])]
       \/ /\ inv' = [inv EXCEPT ![i] = Rejected(r, "users.delete")]
          /\ UNCHANGED users
    /\ UNCHANGED <<auth, stockItems, stockCategories, orders, sent, resendKey, now, served>>

(* ------------------------- deleteCategoryWithItems -------------------- *)
deleteCategoryStart(i, context, data) ==
    /\ inv[i].pc = "idle"
    /\ LET r == Request("deleteCategoryWithItems", context, data)
           categoryId == trim(orElse(data.categoryId, ""))
       IN  inv' = [inv EXCEPT ![i] =
                IF ~requireAdmin(context) THEN HttpsError(r, "permission-denied")
                ELSE IF categoryId = "" THEN HttpsError(r, "invalid-argument")
                ELSE Await(r, "query", [categoryId |-> categoryId])]
    /\ UNCHANGED <<stores, resendKey, now>>

\* itemsQuery without the where clause
itemsQueryNoFilter(categoryId) == DOMAIN stockItems

\* db.collection("stockItems").where("categoryId", "==", categoryId).get()
itemsQuery(categoryId) ==
    {id \in DOMAIN stockItems : field(stockItems[id], "categoryId") = categoryId}

deleteCategoryQuery(i) ==
    /\ inv[i].op = "deleteCategoryWithItems" /\ inv[i].pc = "query"
    /\ LET r == inv[i]
           l == r.loc
       IN
       \/ inv' = [inv EXCEPT ![i] = Await(Called(r, "stockItems.query"), "commit",
                     [categoryId |-> l.categoryId, itemsQuery |-> itemsQuery(l.categoryId),
                      atQuery |-> stockItems, atCommit |-> <<>>])]
       \/ inv' = [inv EXCEPT ![i] = Rejected(r, "stockItems.query")]
    /\ UNCHANGED <<stores, resendKey, now, served>>

\* deleteCategoryCommit deleting the items that match when the batch commits
deleteCategoryCommitRequery(i) ==
    /\ inv[i].op = "deleteCategoryWithItems" /\ inv[i].pc = "commit"
    /\ LET r == inv[i]
           l == r.loc
           matching == {id \in DOMAIN stockItems :
                           field(stockItems[id], "categoryId") = l.categoryId}
       IN
       \/ /\ stockItems' = [id \in DOMAIN stockItems \ matching |-> stockItems[id]]
          /\ stockCategories' = without(stockCategories, l.categoryId)
          /\ inv' = [inv EXCEPT ![i] =
                Return(Called([r EXCEPT !.loc.atCommit = stockItems], "batch.commit"),
                       [deletedItems |-> Cardinality(matching)])]
       \/ /\ inv' = [inv EXCEPT ![i] = Rejected(r, "batch.commit")]
          /\ UNCHANGED <<stockItems, stockCategories>>
    /\ UNCHANGED <<users, auth, orders, sent, resendKey, now, served>>

\* batch.commit(): every delete of the batch, or none.  loc.atQuery and
\* loc.atCommit record the stock items as they were when the query ran and
\* when the batch was committed; the handler does not read them.
deleteCategoryCommit(i) ==
    /\ inv[i].op = "deleteCategoryWithItems" /\ inv[i].pc = "commit"
    /\ LET r == inv[i]
           l == r.loc
       IN
       \/ /\ stockItems' = [id \in DOMAIN stockItems \ l.itemsQuery |-> stockItems[id]]
          /\ stockCategories' = without(stockCategories, l.categoryId)
          /\ inv' = [inv EXCEPT ![i] =
                Return(Called([r EXCEPT !.loc.atCommit = stockItems],
                              "batch.commit"),
                       [deletedItems |-> Cardinality(l.itemsQuery)])]
       \/ /\ inv' = [inv EXCEPT ![i] = Rejected(r, "batch.commit")]
          /\ UNCHANGED <<stockItems, stockCategories>>
    /\ UNCHANGED <<users, auth, orders, sent, resendKey, now, served>>

\* another request of the application adds a stock item
InsertStockItem(id, categoryId) ==
    /\ id \notin DOMAIN stockItems
    /\ stockItems' = with(stockItems, id, [categoryId |-> categoryId])
    /\ UNCHANGED <<users, auth, stockCategories, orders, sent, resendKey, now, inv, served>>

(* ------------------------------ email provider ------------------------ *)
\* the emails the provider accepts in one run
MaxSent == 1

FROM_ADDRESS == "The Crooked Fence <no-reply@thecrookedfence.co.za>"

\* resend.emails.send resolves with {data: {id}, error: null} when the provider
\* accepts the email, and with {data: null, error} when the provider refuses it
emailAccepted(r) ==
    [Called(r, "emails.send") EXCEPT
        !.loc.result = [data |-> [id |-> "msg"], error |-> Null]]

emailRefused(r) ==
    [r EXCEPT !.loc.result = [data |-> None, error |-> "refused"]]

\* resend.emails.send(email) for invocation i, whose handler goes on as
\* accepted or as refused when the call resolves; the call rejects when the
\* client itself throws.
emailsSend(i, email, accepted, refused) ==
    \/ /\ Len(sent) < MaxSent
       /\ sent' = Append(sent, email)
       /\ inv' = [inv EXCEPT ![i] = accepted]
    \/ /\ inv' = [inv EXCEPT ![i] = refused]
       /\ UNCHANGED sent
    \/ /\ inv' = [inv EXCEPT ![i] = Rejected(inv[i], "emails.send")]
       /\ UNCHANGED sent

\* result?.data?.id || null
resultId(result) == orElse(field(result.data, "id"), Null)

(* ------------------------------ sendDispatchEmail --------------------- *)
\* sendDispatchStart without the check of the collection name
sendDispatchStartNoCollectionCheck(i, context, data) ==
    /\ inv[i].pc = "idle"
    /\ LET r == Request("sendDispatchEmail", context, data)
           collectionName == trim(orElse(data.collectionName, ""))
           orderId == trim(orElse(data.orderId, ""))
       IN  inv' = [inv EXCEPT ![i] =
                IF ~requireStaff(context) THEN HttpsError(r, "permission-denied")
                ELSE IF getResendClient = Null THEN HttpsError(r, "failed-precondition")
                ELSE IF orderId = "" THEN HttpsError(r, "invalid-argument")
                ELSE Await(r, "get", [orderRef |-> <<collectionName, orderId>>])]
    /\ UNCHANGED <<stores, resendKey, now>>

sendDispatchStart(i, context, data) ==
    /\ inv[i].pc = "idle"
    /\ LET r == Request("sendDispatchEmail", context, data)
           collectionName == trim(orElse(data.collectionName, ""))
           orderId == trim(orElse(data.orderId, ""))
       IN  inv' = [inv EXCEPT ![i] =
                IF ~requireStaff(context) THEN HttpsError(r, "permission-denied")
                ELSE IF getResendClient = Null THEN HttpsError(r, "failed-precondition")
                ELSE IF collectionName \notin {"eggOrders", "livestockOrders"}
                     THEN HttpsError(r, "invalid-argument")
                ELSE IF orderId = "" THEN HttpsError(r, "invalid-argument")
                ELSE Await(r, "get", [orderRef |-> <<collectionName, orderId>>])]
    /\ UNCHANGED <<stores, resendKey, now>>

truthy(x) == x # Null /\ x # ""

\* the dispatch email of an order
dispatchEmail(order, email) ==
    LET nameParts == SelectSeq(<<field(order, "name"), field(order, "surname")>>, truthy)
        name == IF nameParts = <<>> THEN <<"Customer">> ELSE nameParts
        orderNumberLabel == orElse(field(order, "orderNumber"), "")
        items == IF "eggs" \in DOMAIN order THEN order.eggs ELSE <<>>
        positive(item) == (IF "quantity" \in DOMAIN item THEN item.quantity ELSE 0) > 0
        kept == SelectSeq(items, positive)
        itemSummary == [k \in 1..Len(kept) |-> <<kept[k].label, "x", kept[k].quantity>>]
    IN  [from |-> FROM_ADDRESS,
         to |-> <<email>>,
         subject |-> <<"Your order", orderNumberLabel, "update from The Crooked Fence">>,
         html |-> [name |-> name,
                   orderNumberLabel |-> orderNumberLabel,
                   sendDateLine |-> orElse(field(order, "sendDate"), ""),
                   deliveryLine |-> orElse(field(order, "deliveryOption"), ""),
                   itemLine |-> itemSummary,
                   trackingLine |-> orElse(field(order, "trackingLink"), "")]]

\* sendDispatchGet with the order stamped as soon as it is loaded
sendDispatchGetStampFirst(i) ==
    /\ inv[i].op = "sendDispatchEmail" /\ inv[i].pc = "get"
    /\ LET r == inv[i]
           l == r.loc
           c == Called(r, "orders.get")
           orderSnap == snapshotOf(orders, l.orderRef)
           email == trim(orElse(field(orderSnap.data, "email"), ""))
       IN
       \/ /\ inv' = [inv EXCEPT ![i] =
                IF ~orderSnap.exists THEN HttpsError(c, "not-found")
                ELSE IF email = "" THEN HttpsError(c, "failed-precondition")
                ELSE Await(c, "send", [orderRef |-> l.orderRef,
                                       email |-> dispatchEmail(orderSnap.data, email),
                                       result |-> [data |-> None, error |-> Null]])]
          /\ orders' = IF orderSnap.exists
                       THEN with(orders, l.orderRef,
                                 merge([dispatchEmailSentAt |-> now], orderSnap.data))
                       ELSE orders
       \/ /\ inv' = [inv EXCEPT ![i] = Rejected(r, "orders.get")]
          /\ UNCHANGED orders
    /\ UNCHANGED <<users, auth, stockItems, stockCategories, sent, resendKey, now, served>>

sendDispatchGet(i) ==
    /\ inv[i].op = "sendDispatchEmail" /\ inv[i].pc = "get"
    /\ LET r == inv[i]
           l == r.loc
           c == Called(r, "orders.get")
           orderSnap == snapshotOf(orders, l.orderRef)
           email == trim(orElse(field(orderSnap.data, "email"), ""))
       IN
       \/ inv' = [inv EXCEPT ![i] =
                IF ~orderSnap.exists THEN HttpsError(c, "not-found")
                ELSE IF email = "" THEN HttpsError(c, "failed-precondition")
                ELSE Await(c, "send", [orderRef |-> l.orderRef,
                                       email |-> dispatchEmail(orderSnap.data, email),
                                       result |-> [data |-> None, error |-> Null]])]
       \/ inv' = [inv EXCEPT ![i] = Rejected(r, "orders.get")]
    /\ UNCHANGED <<stores, resendKey, now, served>>

sendDispatchSend(i) ==
    /\ inv[i].op = "sendDispatchEmail" /\ inv[i].pc = "send"
    /\ LET then(r) == Await(r, "stamp", r.loc)
       IN  emailsSend(i, inv[i].loc.email,
                      then(emailAccepted(inv[i])), then(emailRefused(inv[i])))
    /\ UNCHANGED <<users, auth, stockItems, stockCategories, orders, resendKey, now, served>>

sendDispatchStamp(i) ==
    /\ inv[i].op = "sendDispatchEmail" /\ inv[i].pc = "stamp"
    /\ LET r == inv[i]
           l == r.loc
           old == IF l.orderRef \in DOMAIN orders THEN orders[l.orderRef] ELSE <<>>
       IN
       \/ /\ orders' = with(orders, l.orderRef, merge([dispatchEmailSentAt |-> now], old))
          /\ inv' = [inv EXCEPT ![i] = Return(Called(r, "orders.set"),
                                              [id |-> resultId(l.result)])]
       \/ /\ inv' = [inv EXCEPT ![i] = Rejected(r, "orders.set")]
          /\ UNCHANGED orders
    /\ UNCHANGED <<users, auth, stockItems, stockCategories, sent, resendKey, now, served>>

(* -------------------------------- sendTestEmail ----------------------- *)
sendTestStart(i, context, data) ==
    /\ inv[i].pc = "idle"
    /\ LET r == Request("sendTestEmail", context, data)
       IN  inv' = [inv EXCEPT ![i] =
                IF ~requireAdmin(context) THEN HttpsError(r, "permission-denied")
                ELSE IF getResendClient = Null THEN HttpsError(r, "failed-precondition")
                ELSE Await(r, "send",
                       [email |-> [from |-> orElse(data.from, FROM_ADDRESS),
                                   to |-> IF data.toIsArray THEN data.toList
                                          ELSE <<orElse(data.to, "")>>,
                                   subject |-> orElse(data.subject,
                                                      "The Crooked Fence test email"),
                                   html |-> orElse(data.html, "<p>It works!</p>")],
                        result |-> [data |-> None, error |-> Null]])]
    /\ UNCHANGED <<stores, resendKey, now>>

sendTestSend(i) ==
    /\ inv[i].op = "sendTestEmail" /\ inv[i].pc = "send"
    /\ LET then(r) == Return(r, [id |-> resultId(r.loc.result)])
       IN  emailsSend(i, inv[i].loc.email,
                      then(emailAccepted(inv[i])), then(emailRefused(inv[i])))
    /\ UNCHANGED <<users, auth, stockItems, stockCategories, orders, resendKey, now, served>>

(* ------------------------------- the system --------------------------- *)
\* what clients send
CreateData == [email : {Null, " New@Example.com "}, role : {Null, "admin"},
               password : {Null, "s3cret"}]
StatusData == [uid : {Null, " u1 ", "u9"}, disabled : BOOLEAN]
DeleteData == [uid : {Null, " u1 ", "u9"}]
CategoryData == [categoryId : {Null, " c1 ", "c2"}]
DispatchData == [collectionName : {"eggOrders", "livestockOrders", "invalidCollection"},
                 orderId : {Null, " o1 ", "o2", "o9"}]
\* data.to is a list (toIsArray, its elements in toList) or a string or missing
TestData == {[to |-> t, toIsArray |-> FALSE, toList |-> <<>>, from |-> f,
              subject |-> Null, html |-> Null] :
                t \in {Null, "qa@example.com"}, f \in {Null, "QA <qa@thecrookedfence.co.za>"}}
            \cup {[to |-> Null, toIsArray |-> TRUE,
                   toList |-> <<"qa@example.com", "ops@example.com">>, from |-> Null,
                   subject |-> "Hello", html |-> "<p>Hello</p>"]}

ItemIds == {"i1", "i2", "i3"}
CategoryIds == {"c1", "c2"}

ResendKeys == [env : {Null, "re_env"}, config : {Null, "re_config"}]

InitOrders ==
    (<<"eggOrders", "o1">> :>
        [email |-> "cust@example.com", name |-> "Ann", surname |-> "Lee",
         orderNumber |-> "1001", sendDate |-> "2025-03-01", deliveryOption |-> "Courier",
         trackingLink |-> "https://track.example/1001",
         eggs |-> <<[label |-> "Large", quantity |-> 6], [label |-> "Small", quantity |-> 0]>>])
    @@ (<<"eggOrders", "o2">> :> [email |-> "  ", name |-> "Cy"])
    @@ (<<"livestockOrders", "o1">> :> [email |-> "farm@example.com"])

InitStores ==
    /\ users = <<>>
    /\ auth = ("u1" :> [email |-> "bob@example.com", disabled |-> FALSE, role |-> Null])
            @@ ("r1" :> [email |-> "admin@thecrookedfence.co.za", disabled |-> FALSE,
                         role |-> Null])
    /\ stockCategories = [c \in CategoryIds |-> [name |-> c]]
    /\ stockItems = ("i1" :> [categoryId |-> "c1"])
    /\ orders = InitOrders
    /\ sent = <<>>
    /\ now = 1
    /\ inv = [i \in Slots |-> Idle]
    /\ served = 0

\* a deployment, with or without the key of the email provider
Init == InitStores /\ resendKey \in ResendKeys

\* a deployment with the key of the email provider in the environment
InitConfigured == InitStores /\ resendKey = [env |-> "re_env", config |-> Null]

\* a request is let in: Spec serves MaxRequests requests (counted), the other
\* specifications any number
Admit(counted) ==
    IF counted THEN served < MaxRequests /\ served' = served + 1 ELSE UNCHANGED served

ensureRequest(i, counted) ==
    Admit(counted) /\ \E context \in ProfileCallers : ensureStart(i, context)
createRequest(i, counted) ==
    Admit(counted) /\ \E context \in Callers, data \in CreateData : createStart(i, context, data)
updateRequest(i, counted) ==
    Admit(counted) /\ \E context \in Callers, data \in StatusData : updateStart(i, context, data)
deleteRequest(i, counted) ==
    Admit(counted) /\ \E context \in Callers, data \in DeleteData : deleteStart(i, context, data)
deleteCategoryRequest(i, counted) ==
    Admit(counted)
    /\ \E context \in Callers, data \in CategoryData : deleteCategoryStart(i, context, data)
sendDispatchRequest(i, counted) ==
    Admit(counted)
    /\ \E context \in Callers, data \in DispatchData : sendDispatchStart(i, context, data)
sendTestRequest(i, counted) ==
    Admit(counted) /\ \E context \in Callers, data \in TestData : sendTestStart(i, context, data)

\* Spec: the seven handlers, one request at a time, MaxRequests requests
Next ==
    \/ ensureRequest(1, TRUE) \/ ensureGet(1) \/ ensureSet(1)
    \/ createRequest(1, TRUE) \/ createUser(1) \/ createSetClaims(1) \/ createSetDoc(1)
    \/ updateRequest(1, TRUE) \/ updateUser(1) \/ updateSetDoc(1)
    \/ deleteRequest(1, TRUE) \/ deleteUser(1) \/ deleteDoc(1)
    \/ deleteCategoryRequest(1, TRUE) \/ deleteCategoryQuery(1) \/ deleteCategoryCommit(1)
    \/ sendDispatchRequest(1, TRUE) \/ sendDispatchGet(1) \/ sendDispatchSend(1)
    \/ sendDispatchStamp(1)
    \/ sendTestRequest(1, TRUE) \/ sendTestSend(1)
    \/ Respond(1)

Spec == Init /\ [][Next]_vars

\* SpecUsers: the four handlers of the user accounts, one request at a time,
\* any number of requests, while time passes
NextUsers ==
    \/ ensureRequest(1, FALSE) \/ ensureGet(1) \/ ensureSet(1)
    \/ createRequest(1, FALSE) \/ createUser(1) \/ createSetClaims(1) \/ createSetDoc(1)
    \/ updateRequest(1, FALSE) \/ updateUser(1) \/ updateSetDoc(1)
    \/ deleteRequest(1, FALSE) \/ deleteUser(1) \/ deleteDoc(1)
    \/ Respond(1)
    \/ Tick

SpecUsers == InitConfigured /\ [][NextUsers]_vars

\* SpecRace: a request of ensureCurrentUserProfile beside a request of
\* updateAuthUserStatus or deleteAuthUser, in every interleaving
NextRace ==
    \/ ensureRequest(1, FALSE) \/ ensureGet(1) \/ ensureSet(1) \/ Respond(1)
    \/ updateRequest(2, FALSE) \/ updateUser(2) \/ updateSetDoc(2)
    \/ deleteRequest(2, FALSE) \/ deleteUser(2) \/ deleteDoc(2)
    \/ Respond(2)

SpecRace == InitConfigured /\ [][NextRace]_vars

\* SpecStock: requests of deleteCategoryWithItems while other requests add
\* stock items
NextStock ==
    \/ deleteCategoryRequest(1, FALSE) \/ deleteCategoryQuery(1) \/ deleteCategoryCommit(1)
    \/ Respond(1)
    \/ \E id \in ItemIds, categoryId \in CategoryIds : InsertStockItem(id, categoryId)

SpecStock == InitConfigured /\ [][NextStock]_vars

\* SpecMail: the two email handlers, one request at a time, while time passes
NextMail ==
    \/ sendDispatchRequest(1, FALSE) \/ sendDispatchGet(1) \/ sendDispatchSend(1)
    \/ sendDispatchStamp(1)
    \/ sendTestRequest(1, FALSE) \/ sendTestSend(1)
    \/ Respond(1)
    \/ Tick

SpecMail == Init /\ [][NextMail]_vars

(* ================================ claims ============================== *)
AdminOps == {"createAuthUser", "updateAuthUserStatus", "deleteAuthUser",
             "deleteCategoryWithItems", "sendTestEmail"}

\* the caller's token carries no role claim and its email is none of the
\* bootstrap addresses, whatever its case
Unprivileged(context) ==
    /\ context.auth => context.role = Null
    /\ (context.auth /\ context.email # Null)
          => toLowerCase(context.email) \notin BOOTSTRAP_ADMINS

\* C1: a caller without a role claim and without a bootstrap email is turned
\* down by requireAdmin and by requireStaff, and each of the six guarded
\* handlers ends such a caller's request in permission-denied before any call
\* to the document store, the identity provider or the email provider.
C1_UnprivilegedDenied ==
    /\ \A context \in Callers :
          Unprivileged(context) => ~requireAdmin(context) /\ ~requireStaff(context)
    /\ \A i \in Slots :
          (inv[i].op \in AdminOps \cup {"sendDispatchEmail"} /\ Unprivileged(inv[i].context))
          => /\ inv[i].pc = "done"
             /\ inv[i].res.code = "permission-denied"
             /\ inv[i].calls = <<>>

\* a second request, from a signed-in caller without claim or bootstrap
\* email, has been turned down by sendDispatchEmail
C1_Witness ==
    /\ served = 2
    /\ inv[1].op = "sendDispatchEmail"
    /\ inv[1].context = Bob
    /\ inv[1].res.code = "permission-denied"

GuardCodes == {"unauthenticated", "permission-denied", "invalid-argument",
               "failed-precondition", "not-found"}

\* the external calls that only read
ReadCalls == {"users.get", "orders.get", "stockItems.query"}

\* C2: the step on which a handler ends in a guard or validation failure
\* (unauthenticated, permission-denied, invalid-argument, failed-precondition,
\* not-found) changes neither the document store nor the identity provider nor
\* the emails sent, and every external call the invocation made before it was
\* a read.
C2_GuardFailureMutatesNothing ==
    [][\A i \in Slots :
          (inv[i].pc # "done" /\ inv'[i].pc = "done" /\ inv'[i].res.code \in GuardCodes)
          => /\ UNCHANGED stores
             /\ \A k \in 1..Len(inv'[i].calls) : inv'[i].calls[k] \in ReadCalls]_vars

\* after an earlier request has written a profile, sendDispatchEmail has loaded
\* an order without an email address and failed with failed-precondition
C2_Witness ==
    /\ DOMAIN users # {}
    /\ inv[1].op = "sendDispatchEmail"
    /\ inv[1].pc = "done"
    /\ inv[1].res.code = "failed-precondition"
    /\ inv[1].calls = <<"orders.get">>

\* the invocation of sendDispatchEmail is over, it came to its send, and the
\* provider has not accepted the email: it refused it, or the call rejected
SendFailed(r) ==
    /\ r.op = "sendDispatchEmail"
    /\ r.pc = "done"
    /\ "result" \in DOMAIN r.loc
    /\ "emails.send" \notin {r.calls[k] : k \in 1..Len(r.calls)}

\* C3: sendDispatchEmail stamps dispatchEmailSentAt only after a successful
\* send: when the send has failed the invocation ends in a failure that the
\* caller sees, and it has not written the order.
C3_StampOnlyAfterSuccessfulSend ==
    \A i \in Slots :
        SendFailed(inv[i])
        => /\ inv[i].res.code = "internal"
           /\ "orders.set" \notin {inv[i].calls[k] : k \in 1..Len(inv[i].calls)}

ValidCollection(data) ==
    trim(orElse(data.collectionName, "")) \in {"eggOrders", "livestockOrders"}

\* C7 as stated: sendDispatchEmail with a collection name other than
\* "eggOrders" and "livestockOrders" ends in invalid-argument without reading
\* a document, for every caller that passes the staff guard and every
\* configuration of the email client.
C7_InvalidCollectionAlwaysInvalidArgument ==
    \A i \in Slots :
        (inv[i].op = "sendDispatchEmail" /\ requireStaff(inv[i].context)
            /\ ~ValidCollection(inv[i].data))
        => /\ inv[i].pc = "done"
           /\ inv[i].res.code = "invalid-argument"
           /\ inv[i].calls = <<>>

\* C7 amended: sendDispatchEmail with a collection name other than "eggOrders"
\* and "livestockOrders", from a caller that passes the staff guard, ends
\* without reading a document: in invalid-argument when the email client is
\* configured, in failed-precondition when it is not.
C7_InvalidCollectionRejectedUnread ==
    \A i \in Slots :
        (inv[i].op = "sendDispatchEmail" /\ requireStaff(inv[i].context)
            /\ ~ValidCollection(inv[i].data))
        => /\ inv[i].pc = "done"
           /\ inv[i].res.code = IF orElse(resendKey.env, resendKey.config) = Null
                                THEN "failed-precondition" ELSE "invalid-argument"
           /\ inv[i].calls = <<>>

\* a worker's request for "invalidCollection" with the key in the functions
\* config has ended in invalid-argument
C7_Witness ==
    /\ inv[1].op = "sendDispatchEmail"
    /\ inv[1].context = BobW
    /\ inv[1].data.collectionName = "invalidCollection"
    /\ resendKey = [env |-> Null, config |-> "re_config"]
    /\ inv[1].res.code = "invalid-argument"

\* the stock items of a collection that carry the category id
ItemsOf(items, categoryId) ==
    {id \in DOMAIN items : "categoryId" \in DOMAIN items[id]
                              /\ items[id].categoryId = categoryId}

\* C4: when the batch of deleteCategoryWithItems commits and no stock item
\* has been added since its query, the N items of the category (N >= 0) and
\* the category document are deleted together and deletedItems = N; the items
\* of other categories and the other categories are as before; when the
\* commit fails nothing is deleted.
C4_CascadeDelete ==
    [][\A i \in Slots :
          LET r == inv[i]
              categoryId == r.loc.categoryId
              N == Cardinality(ItemsOf(stockItems, categoryId))
          IN  (r.op = "deleteCategoryWithItems" /\ r.pc = "commit" /\ inv'[i].pc = "done")
              => IF inv'[i].res.code = "ok"
                 THEN /\ r.loc.atQuery = stockItems
                         => /\ ItemsOf(stockItems', categoryId) = {}
                            /\ inv'[i].res.value.deletedItems = N
                            /\ Cardinality(DOMAIN stockItems') = Cardinality(DOMAIN stockItems) - N
                      /\ categoryId \notin DOMAIN stockCategories'
                      /\ \A c \in DOMAIN stockCategories \ {categoryId} :
                            c \in DOMAIN stockCategories'
                            /\ stockCategories'[c] = stockCategories[c]
                      /\ \A id \in DOMAIN stockItems \ ItemsOf(stockItems, categoryId) :
                            id \in DOMAIN stockItems' /\ stockItems'[id] = stockItems[id]
                 ELSE UNCHANGED <<stockItems, stockCategories>>]_vars

\* a category with two items, and an item of the other category beside them,
\* has been deleted with deletedItems = 2
C4_Witness ==
    /\ inv[1].op = "deleteCategoryWithItems"
    /\ inv[1].pc = "done"
    /\ inv[1].res.code = "ok"
    /\ inv[1].res.value.deletedItems = 2
    /\ inv[1].loc.atQuery = inv[1].loc.atCommit
    /\ Cardinality(DOMAIN inv[1].loc.atCommit) = 3
    /\ Cardinality(DOMAIN stockItems) = 1

\* C9: when the batch of deleteCategoryWithItems commits, a stock item of
\* the category that was added after the query is not deleted and not counted
\* in deletedItems, while the category document and every item the query
\* returned are deleted.
C9_LateItemSurvives ==
    [][\A i \in Slots :
          LET r == inv[i]
              categoryId == r.loc.categoryId
              queried == ItemsOf(r.loc.atQuery, categoryId)
              late == ItemsOf(stockItems, categoryId) \ queried
          IN  (r.op = "deleteCategoryWithItems" /\ r.pc = "commit" /\ inv'[i].pc = "done"
                  /\ inv'[i].res.code = "ok")
              => /\ \A id \in late : id \in DOMAIN stockItems'
                                       /\ stockItems'[id] = stockItems[id]
                 /\ inv'[i].res.value.deletedItems = Cardinality(queried)
                 /\ queried \cap DOMAIN stockItems' = {}
                 /\ categoryId \notin DOMAIN stockCategories']_vars

\* the batch has committed with deletedItems = 1 while a second item of the
\* category, added after the query, is still in the store
C9_Witness ==
    /\ inv[1].op = "deleteCategoryWithItems"
    /\ inv[1].pc = "done"
    /\ inv[1].res.code = "ok"
    /\ inv[1].res.value.deletedItems = 1
    /\ \E id \in DOMAIN inv[1].loc.atCommit \ DOMAIN inv[1].loc.atQuery :
          /\ inv[1].loc.atCommit[id].categoryId = inv[1].loc.categoryId
          /\ id \in DOMAIN stockItems
    /\ inv[1].loc.categoryId \notin DOMAIN stockCategories

\* two documents agree on a field: both lack it, or both hold the same value
SameField(a, b, f) ==
    /\ (f \in DOMAIN a) = (f \in DOMAIN b)
    /\ f \in DOMAIN a => a[f] = b[f]

\* the document carries disabled = v
DisabledIs(d, v) == "disabled" \in DOMAIN d /\ d.disabled = v

\* the user profiles after a whole call of ensureCurrentUserProfile by the
\* caller, nothing else running in between
Synced(profiles, context) ==
    LET l == ensureLocals(context)
        old == IF l.uid \in DOMAIN profiles THEN profiles[l.uid] ELSE <<>>
        read == [uid |-> l.uid, email |-> l.email, role |-> l.role,
                 snapshot |-> snapshotOf(profiles, l.uid)]
    IN  with(profiles, l.uid, ensureWrite(read, old, now))

\* C5: ensureCurrentUserProfile is idempotent: from every state of the
\* profiles that the handlers reach, a second call by the same caller stores
\* the email, the role and the disabled flag the first call stored; when the
\* first call creates the profile, disabled is false after both.  The state
\* after the first call is reached too, so the same holds of every later call.
C5_EnsureIdempotent ==
    \A context \in ProfileCallers \ {Anon} :
        LET uid == context.uid
            once == Synced(users, context)
            twice == Synced(once, context)
        IN  /\ \A f \in {"email", "role", "disabled"} : SameField(twice[uid], once[uid], f)
            /\ uid \notin DOMAIN users
                  => DisabledIs(once[uid], FALSE) /\ DisabledIs(twice[uid], FALSE)

\* a later call by the same caller has found the profile as the caller's
\* first call made it, and has left email, role and disabled = false in it
C5_Witness ==
    /\ inv[1].op = "ensureCurrentUserProfile"
    /\ inv[1].pc = "done"
    /\ inv[1].res.code = "ok"
    /\ inv[1].loc.snapshot.exists
    /\ field(inv[1].loc.snapshot.data, "email") = inv[1].loc.email
    /\ field(inv[1].loc.snapshot.data, "role") = inv[1].loc.role
    /\ DisabledIs(inv[1].loc.snapshot.data, FALSE)
    /\ "createdAt" \in DOMAIN inv[1].loc.snapshot.data
    /\ users[inv[1].loc.uid].email = inv[1].loc.email
    /\ users[inv[1].loc.uid].role = inv[1].loc.role
    /\ users[inv[1].loc.uid].disabled = FALSE

\* C6: when ensureCurrentUserProfile has found the profile present, its write
\* stores the caller's email and, as role, the resolved role if there is one,
\* else the role stored before, else null; the disabled flag and every field
\* other than email, role and updatedAt are as before, and so is every other
\* profile.
C6_MergeKeepsProfile ==
    [][\A i \in Slots :
          LET r == inv[i]
              uid == r.loc.uid
          IN  (r.op = "ensureCurrentUserProfile" /\ r.pc = "set" /\ r.loc.snapshot.exists
                  /\ inv'[i].res.code = "ok" /\ uid \in DOMAIN users)
              => /\ users'[uid].email = r.loc.email
                 /\ users'[uid].role = IF r.loc.role # Null THEN r.loc.role
                                       ELSE field(users[uid], "role")
                 /\ DOMAIN users'[uid] = DOMAIN users[uid] \cup {"email", "role", "updatedAt"}
                 /\ \A f \in DOMAIN users[uid] \ {"email", "role", "updatedAt"} :
                       users'[uid][f] = users[uid][f]
                 /\ \A u \in DOMAIN users \ {uid} :
                       u \in DOMAIN users' /\ users'[u] = users[u]]_vars

\* a caller without claim or bootstrap email has synced a disabled profile
\* that stored the role "worker": the role is still "worker", the profile
\* still disabled, createdAt as it was
C6_Witness ==
    /\ inv[1].op = "ensureCurrentUserProfile"
    /\ inv[1].pc = "done"
    /\ inv[1].res.code = "ok"
    /\ inv[1].loc.role = Null
    /\ inv[1].loc.snapshot.exists
    /\ field(inv[1].loc.snapshot.data, "role") = "worker"
    /\ DisabledIs(inv[1].loc.snapshot.data, TRUE)
    /\ users["u1"].role = "worker"
    /\ users["u1"].disabled = TRUE
    /\ users["u1"].createdAt < users["u1"].updatedAt

\* C8: updateAuthUserStatus and deleteAuthUser call the identity provider
\* first and write the profile second, and roll nothing back: when the call
\* to the identity provider fails neither store changes; the profile changes
\* only after that call has taken effect; when the write of the profile
\* fails, the caller sees the failure and the identity provider keeps the
\* effect (the disabled flag as set, or the user deleted).
C8_IdentityFirstNoRollback ==
    [][\A i \in Slots :
          LET r == inv[i]
              failed == inv'[i].pc = "done" /\ inv'[i].res.code = "internal"
          IN  (r.op \in {"updateAuthUserStatus", "deleteAuthUser"} /\ inv'[i] # r)
              => /\ (r.pc \in {"updateUser", "deleteUser"} /\ failed)
                      => UNCHANGED <<auth, users>>
                 /\ users' # users
                      => /\ r.pc \in {"setDoc", "deleteDoc"}
                         /\ r.calls \in {<<"auth.updateUser">>, <<"auth.deleteUser">>}
                 /\ (r.pc \in {"setDoc", "deleteDoc"} /\ failed)
                      => /\ UNCHANGED <<auth, users>>
                         /\ IF r.op = "deleteAuthUser"
                            THEN r.loc.uid \notin DOMAIN auth'
                            ELSE auth'[r.loc.uid].disabled = r.loc.disabled]_vars

\* deleteAuthUser has failed on the delete of the profile: the user is gone
\* from the identity provider and the profile is still in the store
C8_Witness ==
    /\ inv[1].op = "deleteAuthUser"
    /\ inv[1].pc = "done"
    /\ inv[1].res.value = [failed |-> "users.delete"]
    /\ inv[1].calls = <<"auth.deleteUser">>
    /\ inv[1].loc.uid \notin DOMAIN auth
    /\ inv[1].loc.uid \in DOMAIN users

\* C10: no step of ensureCurrentUserProfile changes the disabled flag of a
\* profile from true to false.
C10_EnsureKeepsDisabled ==
    [][\A i \in Slots :
          (inv[i].op = "ensureCurrentUserProfile" /\ inv'[i] # inv[i])
          => \A u \in DOMAIN users :
                DisabledIs(users[u], TRUE)
                => u \in DOMAIN users' /\ DisabledIs(users'[u], TRUE)]_vars

====
